---- MODULE Spec2Model ----
(***************************************************************************)
(* Calibration-driven wavelength control of the Chilas laser library:      *)
(* the calibration table parser and lookup (calibration.py), the Steady    *)
(* mode wavelength change with its anti-hysteresis ramp (steady_mode.py),  *)
(* the Sweep mode bounds and cycler commands (sweep_mode.py), the mode     *)
(* property of the Laser object with its accessors (laser.py), the header *)
(* block of a calibration file (load_calibration), the phase-section      *)
(* heater (phase_section.py), the AtlasLaser class (atlas_laser.py) and    *)
(* the reader read_calibration_file (utils.py).                            *)
(*                                                                         *)
(* Wavelengths are integers (one unit = one grid step of the table).       *)
(* Heater voltages are integers in units of 1e-4 V, the resolution of the  *)
(* "%.4f" format every heater command is written with.                     *)
(***************************************************************************)
EXTENDS Integers, Sequences, FiniteSets, TLC

VARIABLES
    model,          \* laser model tag of the calibration file
    rows,           \* rows of the look-up table not yet read by _parse_rows
    entries,        \* _parse_rows: entries parsed so far
    cycler_index,   \* _parse_rows: next cycler index
    mode_index,     \* _parse_rows: mode counter
    in_hop,         \* _parse_rows: inside a run of hop rows
    pc,             \* position of load_calibration
    cal,            \* the Calibration object, NoCal until constructed
    result,         \* outcome of the last Calibration lookup
    steady,         \* the SteadyMode object with its _WLChangeMethod
    sweep,          \* the SweepMode object
    last,           \* the last mode operation: arguments, commands sent, error
    header,         \* load_calibration: the file, its unread lines, the settings read
    laser,          \* the Laser object: its mode objects and the active mode
    device          \* the firmware: whether the cycler is running, the span it holds

vars == <<model, rows, entries, cycler_index, mode_index, in_hop, pc, cal,
          result, steady, sweep, last, header, laser, device>>

calVars == <<model, rows, entries, cycler_index, mode_index, in_hop, pc, cal, result>>

-----------------------------------------------------------------------------
(* Bounds of the model *)

MaxRows == 3        \* rows in a calibration file
MaxWl == 3          \* wavelengths 1..MaxWl appear in a table
MaxSweeps == 2      \* number of sweeps asked for
MaxFileRows == 2    \* table rows of a file read from its first line

Wavelengths == 1..MaxWl
\* wavelengths asked for: every table wavelength, one below and one above
Requested == 0..(MaxWl + 1)

-----------------------------------------------------------------------------
(* Small helpers *)

Abs(x) == IF x < 0 THEN -x ELSE x

Range(s) == {s[i] : i \in DOMAIN s}

SetMax(S) == CHOOSE x \in S : \A y \in S : y <= x

SetMin(S) == CHOOSE x \in S : \A y \in S : x <= y

SeqsUpTo(S, n) == UNION {[1..k -> S] : k \in 0..n}

-----------------------------------------------------------------------------
(* Calibration file rows.  A row is what csv.reader yields for one line:   *)
(* `cells` is the number of fields, `wl` the wavelength field (column 4),  *)
(* `flag` the text of the mode-hop field (column 5) as a sequence of       *)
(* characters.  The four heater columns are copied into the entry          *)
(* unchanged and take no part in indexing or lookup; they are left out.    *)

FlagFields == {<<"0">>, <<"1">>, <<"1", " ">>}

BlankRow == [cells |-> 0, empty |-> TRUE, wl |-> 0, flag |-> <<>>]
\* a line of separators only, ";;": every field is the empty string
EmptyCellsRow == [cells |-> 3, empty |-> TRUE, wl |-> 0, flag |-> <<>>]
ShortRow == [cells |-> 5, empty |-> FALSE, wl |-> 1, flag |-> <<>>]
DataRows == [cells : {6}, empty : {FALSE}, wl : Wavelengths, flag : FlagFields]

FileRows == {BlankRow, EmptyCellsRow, ShortRow} \cup DataRows

\* str.strip(): leading and trailing blanks removed
RECURSIVE StripLeft(_)
StripLeft(s) == IF s # <<>> /\ Head(s) = " " THEN StripLeft(Tail(s)) ELSE s

RECURSIVE StripRight(_)
StripRight(s) ==
    IF s # <<>> /\ s[Len(s)] = " " THEN StripRight(SubSeq(s, 1, Len(s) - 1)) ELSE s

Strip(s) == StripRight(StripLeft(s))

\* `not row or all(not c for c in row)`
\* a slip of the blank test: only a row of no fields counts
IsBlankNoFieldsOnly(row) == row.cells = 0

\* `not row or all(not c for c in row)`
IsBlank(row) == row.cells = 0 \/ row.empty

NoCal == [state |-> "none"]
NoResult == [kind |-> "none"]
NoSteady == [state |-> "none"]
NoSweep == [state |-> "none"]
NoOp == [op |-> "none"]
NoHeader == [state |-> "none"]
NoLaser == [state |-> "none"]
\* the firmware after power-up: the cycler stands still
NoDevice == [cycler_running |-> FALSE]

-----------------------------------------------------------------------------
(* _parse_rows: one row per step *)

\* mode_index of an ATLAS entry (None)
NoModeIndex == 0

\* hop_flag of a row: str(row[5]).strip() == "1", read for COMET only
HopFlag(m, row) == m = "COMET" /\ Strip(row.flag) = <<"1">>

\* the hop tracking of the loop body: in_hop after a row with flag `hop`
InHopAfter(inhop, hop) ==
    IF inhop /\ ~hop THEN FALSE
    ELSE IF ~inhop /\ hop THEN TRUE
    ELSE inhop

\* a slip of the hop tracking: the counter moves on every hop row
ModeIndexAfterEveryHopRow(mi, inhop, hop) == IF hop THEN mi + 1 ELSE mi

\* the hop tracking of the loop body: mode_index after a row with flag `hop`
ModeIndexAfter(mi, inhop, hop) ==
    IF inhop /\ ~hop THEN mi
    ELSE IF ~inhop /\ hop THEN mi + 1
    ELSE mi

CalibrationEntry(wl, mi, hop, ci) ==
    [wavelength |-> wl, mode_index |-> mi, mode_hop_flag |-> hop, cycler_index |-> ci]

\* One iteration of `for row in csv_reader`
ParseRow ==
    /\ pc = "rows"
    /\ rows # <<>>
    /\ rows' = Tail(rows)
    /\ LET row == Head(rows)
           hop == HopFlag(model, row)
           mi  == IF model = "COMET" THEN ModeIndexAfter(mode_index, in_hop, hop)
                  ELSE mode_index
       IN  IF IsBlank(row)
           THEN UNCHANGED <<entries, cycler_index, mode_index, in_hop, pc>>
           ELSE IF row.cells < 6
           THEN /\ pc' = "CalibrationError"
                /\ UNCHANGED <<entries, cycler_index, mode_index, in_hop>>
           ELSE /\ in_hop' = IF model = "COMET" THEN InHopAfter(in_hop, hop) ELSE in_hop
                /\ mode_index' = mi
                /\ entries' = Append(entries,
                       CalibrationEntry(row.wl,
                                        IF model = "COMET" THEN mi ELSE NoModeIndex,
                                        hop, cycler_index))
                /\ cycler_index' = cycler_index + 1
                /\ pc' = pc
    /\ UNCHANGED <<model, cal, result, steady, sweep, last, header, laser, device>>

-----------------------------------------------------------------------------
(* Calibration: construction and lookup.  A dict is a sequence of          *)
(* [key, value] pairs in insertion order, as Python iterates it.           *)

DictKeys(d) == [i \in DOMAIN d |-> d[i].key]

DictHas(d, k) == \E i \in DOMAIN d : d[i].key = k

DictGet(d, k) == d[CHOOSE i \in DOMAIN d : d[i].key = k].value

\* a slip of the dict: a present key keeps its first value
DictPutKeepFirst(d, k, v) ==
    IF DictHas(d, k) THEN d ELSE Append(d, [key |-> k, value |-> v])

\* d[k] = v: a present key keeps its place and takes the new value
DictPut(d, k, v) ==
    IF DictHas(d, k)
    THEN [i \in DOMAIN d |-> IF d[i].key = k THEN [key |-> k, value |-> v] ELSE d[i]]
    ELSE Append(d, [key |-> k, value |-> v])

\* {entry.wavelength: entry for entry in entries if not entry.mode_hop_flag}
RECURSIVE DirectAccess(_)
DirectAccess(es) ==
    IF es = <<>> THEN <<>>
    ELSE LET e == es[Len(es)]
             d == DirectAccess(SubSeq(es, 1, Len(es) - 1))
         IN  IF e.mode_hop_flag THEN d ELSE DictPut(d, e.wavelength, e)

\* self.max_wl = _wavelengths[0]
MaxWlOf(es) == es[1].wavelength

\* self.min_wl = _wavelengths[-1]
MinWlOf(es) == es[Len(es)].wavelength

\* _wavelengths.count(_wavelengths[0])
CountFirst(es) == Cardinality({i \in DOMAIN es : es[i].wavelength = es[1].wavelength})

NoStepSize == -1

\* step_size, left unset when the index is past the end (IndexError is caught)
StepSizeOf(es) ==
    IF CountFirst(es) + 1 \in DOMAIN es
    THEN Abs(es[1].wavelength - es[CountFirst(es) + 1].wavelength)
    ELSE NoStepSize

\* Calibration.__init__ for a non-empty entry list
Calibration(m, es) ==
    [state |-> "ready", model |-> m, entries |-> es,
     max_wl |-> MaxWlOf(es), min_wl |-> MinWlOf(es), step_size |-> StepSizeOf(es),
     direct_access |-> DirectAccess(es)]

\* a slip of the constructor: the test of the entry list is left out and an object
\* with the attributes assigned so far is handed out
ConstructUntested ==
    /\ pc = "rows"
    /\ rows = <<>>
    /\ pc' = "loaded"
    /\ cal' = IF entries = <<>>
              THEN [state |-> "ready", model |-> model, entries |-> entries]
              ELSE Calibration(model, entries)
    /\ UNCHANGED <<model, rows, entries, cycler_index, mode_index, in_hop, result,
                   steady, sweep, last, header, laser, device>>

\* the end of load_calibration: the rows are read, the Calibration is built
Construct ==
    /\ pc = "rows"
    /\ rows = <<>>
    /\ IF entries = <<>>
       THEN pc' = "CalibrationError" /\ cal' = cal
       ELSE pc' = "loaded" /\ cal' = Calibration(model, entries)
    /\ UNCHANGED <<model, rows, entries, cycler_index, mode_index, in_hop, result,
                   steady, sweep, last, header, laser, device>>

\* Calibration.__contains__ for a wavelength
Contains(c, w) == c.min_wl <= w /\ c.max_wl >= w

\* min(keys, key=lambda x: abs(x - w)): the first key at the smallest distance
MinKey(keys, w) ==
    keys[CHOOSE i \in DOMAIN keys :
            /\ \A j \in DOMAIN keys : Abs(keys[i] - w) <= Abs(keys[j] - w)
            /\ \A j \in 1..(i - 1) : Abs(keys[j] - w) > Abs(keys[i] - w)]

NoEntry == CalibrationEntry(0, NoModeIndex, FALSE, -1)

\* Calibration.__getitem__
GetItem(c, w) ==
    IF DictHas(c.direct_access, w)
    THEN [kind |-> "entry", w |-> w, entry |-> DictGet(c.direct_access, w)]
    ELSE IF Contains(c, w)
    THEN IF c.direct_access = <<>>
         THEN [kind |-> "ValueError", w |-> w, entry |-> NoEntry]  \* min() of no keys
         ELSE [kind |-> "entry", w |-> w,
               entry |-> DictGet(c.direct_access, MinKey(DictKeys(c.direct_access), w))]
    ELSE [kind |-> "KeyError", w |-> w, entry |-> NoEntry]

\* a caller evaluates calibration[w]
Lookup ==
    /\ pc = "loaded"
    /\ \E w \in Requested : result' = GetItem(cal, w)
    /\ UNCHANGED <<model, rows, entries, cycler_index, mode_index, in_hop, pc, cal,
                   steady, sweep, last, header, laser, device>>

\* a slip of the hop lookup: the last hop entry of the wavelength is handed out
GetModeHopStartLast(c, w) ==
    LET mode_hops == SelectSeq(c.entries,
                               LAMBDA e : e.wavelength = w /\ e.mode_hop_flag)
    IN  IF mode_hops # <<>>
        THEN [kind |-> "entry", w |-> w, entry |-> mode_hops[Len(mode_hops)]]
        ELSE GetItem(c, w)

\* Calibration.get_mode_hop_start
GetModeHopStart(c, w) ==
    LET mode_hops == SelectSeq(c.entries,
                               LAMBDA e : e.wavelength = w /\ e.mode_hop_flag)
    IN  IF mode_hops # <<>>
        THEN [kind |-> "entry", w |-> w, entry |-> mode_hops[1]]
        ELSE GetItem(c, w)

\* a caller evaluates calibration.get_mode_hop_start(w)
LookupHopStart ==
    /\ pc = "loaded"
    /\ \E w \in Requested :
          last' = [op |-> "get_mode_hop_start", w |-> w,
                   returned |-> GetModeHopStart(cal, w)]
    /\ UNCHANGED <<model, rows, entries, cycler_index, mode_index, in_hop, pc, cal,
                   result, steady, sweep, header, laser, device>>

CalInit ==
    /\ model \in {"ATLAS", "COMET"}
    /\ rows \in SeqsUpTo(FileRows, MaxRows)
    /\ entries = <<>>
    /\ cycler_index = 0
    /\ mode_index = 1
    /\ in_hop = FALSE
    /\ pc = "rows"
    /\ cal = NoCal
    /\ result = NoResult
    /\ steady = NoSteady
    /\ sweep = NoSweep
    /\ last = NoOp
    /\ header = NoHeader
    /\ laser = NoLaser
    /\ device = NoDevice

CalNext == ParseRow \/ Construct \/ Lookup \/ LookupHopStart

SpecCal == CalInit /\ [][CalNext]_vars

-----------------------------------------------------------------------------
(* Properties of the calibration table (SpecCal) *)

Looked == pc = "loaded" /\ result.kind # "none"

NonHopAt(w) ==
    {i \in DOMAIN cal.entries :
        cal.entries[i].wavelength = w /\ ~cal.entries[i].mode_hop_flag}

\* C1: a lookup of a wavelength inside [min_wl, max_wl] returns an entry, and
\* that entry is not a mode-hop row.
C1_InRangeLookupReturnsNonHop ==
    (Looked /\ cal.min_wl <= result.w /\ result.w <= cal.max_wl)
        => (result.kind = "entry" /\ ~result.entry.mode_hop_flag)

\* C2 as stated: the lookup of the wavelength of any non-hop entry returns that
\* very entry.
C2_RoundTripEveryNonHopEntry ==
    Looked => \A i \in NonHopAt(result.w) :
                  result.kind = "entry" /\ result.entry = cal.entries[i]

\* C2 amended: the lookup of the wavelength of a non-hop entry returns the last
\* non-hop entry of that wavelength in file order (the entry itself when no later
\* non-hop row repeats its wavelength).
C2_RoundTripLastNonHopEntry ==
    (Looked /\ NonHopAt(result.w) # {})
        => /\ result.kind = "entry"
           /\ result.entry = cal.entries[SetMax(NonHopAt(result.w))]

\* a lookup of a wavelength that two non-hop rows carry
C2_Witness ==
    /\ Looked
    /\ Cardinality(NonHopAt(result.w)) >= 2
    /\ result.kind = "entry"

\* C3: a lookup of a wavelength below min_wl or above max_wl raises KeyError.
C3_OutOfRangeLookupRaises ==
    (Looked /\ (result.w < cal.min_wl \/ result.w > cal.max_wl))
        => result.kind = "KeyError"

C5_MinLeMax == pc = "loaded" => cal.min_wl <= cal.max_wl

\* the entries of the table that are hop entries of the wavelength last asked for
HopEntriesAsked ==
    {cal.entries[i] : i \in {k \in DOMAIN cal.entries :
                                /\ cal.entries[k].wavelength = last.w
                                /\ cal.entries[k].mode_hop_flag}}

HopStartAsked == pc = "loaded" /\ last # NoOp /\ last.op = "get_mode_hop_start"

\* C20: get_mode_hop_start(w) returns, among the entries whose wavelength is
\* exactly w and whose mode-hop flag is set, the one with the lowest cycler index;
\* when there is no such entry it returns or raises exactly what calibration[w]
\* does.
C20_HopStartIsLowestCyclerIndex ==
    HopStartAsked =>
        IF HopEntriesAsked # {}
        THEN /\ last.returned.kind = "entry"
             /\ last.returned.entry \in HopEntriesAsked
             /\ \A e \in HopEntriesAsked :
                   last.returned.entry.cycler_index <= e.cycler_index
        ELSE last.returned = GetItem(cal, last.w)

\* the wavelength asked for has two hop entries and the first of them came back
C20_Witness ==
    /\ HopStartAsked
    /\ Cardinality(HopEntriesAsked) >= 2
    /\ last.returned.kind = "entry"
    /\ \E e \in HopEntriesAsked : e.cycler_index > last.returned.entry.cycler_index

-----------------------------------------------------------------------------
(* Commands written to the laser (Laser.query) and the record of an        *)
(* operation: its argument, the remembered wavelength before it, the       *)
(* exception it raised, the commands it sent in order and the number of    *)
(* anti-hysteresis ramps it ran.                                           *)

NoArg == -1

Cmd(name, a, b) == [cmd |-> name, a |-> a, b |-> b]

Op(name, value, prev, raised, msg, sent, ramps) ==
    [op |-> name, value |-> value, prev_wl |-> prev, raised |-> raised, msg |-> msg,
     sent |-> sent, ramps |-> ramps]

\* a slip of the pulse: trigger low, then trigger high
TriggerPulseLowFirst == <<Cmd("DRV:CYC:TRIG", 0, NoArg), Cmd("DRV:CYC:TRIG", 1, NoArg)>>

\* Laser.trigger_pulse: trigger high, then trigger low
TriggerPulse == <<Cmd("DRV:CYC:TRIG", 1, NoArg), Cmd("DRV:CYC:TRIG", 0, NoArg)>>

-----------------------------------------------------------------------------
(* Steady mode.  The calibration table is a dict wavelength -> entry; only *)
(* key lookups and min/max of the keys are made on it, so it is a function. *)

\* HeaterChannel.PHASE_SECTION
PHASE_SECTION == 0

\* heater values are written with "%.4f": one unit is 1e-4 V
VoltScale == 10000

\* `offset -= 2` of the ramp loop, in V^2
RampStep == 2

PhaseVoltages == {VoltScale, 2 * VoltScale}
ModeIndices == {1, 2}
\* self._antihyst_parameters[0][0], in V^2
AntiHystOffsets == {1, 2}

\* the heater values and mode index of one row
SteadyRows ==
    [phase_section : PhaseVoltages, large_ring : {3 * VoltScale},
     small_ring : {4 * VoltScale}, coupler : {5 * VoltScale}, mode_index : ModeIndices]

\* utils.CalibrationEntry of the row `r` read for wavelength `k`; the cycler index
\* is the row's place in a table written in descending order
SteadyEntry(K, k, r) ==
    [wavelength |-> k, phase_section |-> r.phase_section, large_ring |-> r.large_ring,
     small_ring |-> r.small_ring, coupler |-> r.coupler, mode_index |-> r.mode_index,
     cycler_index |-> Cardinality({j \in K : j > k})]

\* the tables of calibration["steady"]["calibration"]
SteadyTables ==
    UNION {{[k \in K |-> SteadyEntry(K, k, t[k])] : t \in [K -> SteadyRows]} :
              K \in (SUBSET Wavelengths) \ {{}}}

\* floor of the square root, by bisection: lo*lo <= x < hi*hi
RECURSIVE ISqrtIn(_, _, _)
ISqrtIn(x, lo, hi) ==
    IF hi - lo <= 1 THEN lo
    ELSE LET mid == (lo + hi) \div 2
         IN  IF mid * mid <= x THEN ISqrtIn(x, mid, hi) ELSE ISqrtIn(x, lo, mid)

ISqrt(x) == ISqrtIn(x, 0, 46341)

\* x ** 0.5 written with "%.4f": the square root rounded to the nearest unit
RoundSqrt(x) == LET r == ISqrt(x) IN IF x - r * r > r THEN r + 1 ELSE r

\* the values the loop of _antihyst writes, from `offset` down in steps of 2
RECURSIVE RampValues(_, _)
RampValues(initial_phase, offset) ==
    IF offset >= 0
    THEN <<RoundSqrt(initial_phase * initial_phase + offset * VoltScale * VoltScale)>>
             \o RampValues(initial_phase, offset - RampStep)
    ELSE <<>>

\* the phase voltage _antihyst starts from: that of the remembered wavelength,
\* which SteadyMode.wavelength updates only after set_wl has returned
InitialPhase(s, value) == s.calibration[s.wl].phase_section

\* _WLChangeMethod._antihyst: the commands it sends
Antihyst(s, value) ==
    LET initial_phase == InitialPhase(s, value)
        ramp == RampValues(initial_phase, s.antihyst_offset)
        final == IF ramp = <<>> THEN initial_phase ELSE ramp[Len(ramp)]
    IN  [i \in DOMAIN ramp |-> Cmd("DRV:D", PHASE_SECTION, ramp[i])]
            \o <<Cmd("DRV:D", PHASE_SECTION, final)>>

\* a slip of the mode-hop test: every change counts as a hop
IsModeHopAlways(s, value) == TRUE

\* `self._calibration_table[self._wavelength].mode_index is not entry.mode_index`
\* (identity of the small integers of a mode index is equality of their values)
IsModeHop(s, value) ==
    s.calibration[s.wl].mode_index # s.calibration[value].mode_index

Outcome(raised, msg, sent, ramps) ==
    [raised |-> raised, msg |-> msg, sent |-> sent, ramps |-> ramps]

\* a slip of the key test: an untabulated wavelength is served by the closest key
PreLoadSetWlClosest(s, value) ==
    LET keys == DOMAIN s.calibration
        near == CHOOSE k \in keys : \A j \in keys : Abs(k - value) <= Abs(j - value)
        entry == s.calibration[near]
        preload == <<Cmd("DRV:DP", 0, entry.phase_section),
                     Cmd("DRV:DP", 1, entry.large_ring),
                     Cmd("DRV:DP", 2, entry.small_ring),
                     Cmd("DRV:DP", 3, entry.coupler),
                     Cmd("DRV:U", NoArg, NoArg)>>
    IN  IF IsModeHop(s, near) /\ s.anti_hyst_enabled
        THEN Outcome("none", "", preload \o Antihyst(s, near), 1)
        ELSE Outcome("none", "", preload, 0)

\* _PreLoad.set_wl
PreLoadSetWl(s, value) ==
    IF value \notin DOMAIN s.calibration
    THEN Outcome("ValueError", "not found", <<>>, 0)
    ELSE LET entry == s.calibration[value]
             preload == <<Cmd("DRV:DP", 0, entry.phase_section),
                          Cmd("DRV:DP", 1, entry.large_ring),
                          Cmd("DRV:DP", 2, entry.small_ring),
                          Cmd("DRV:DP", 3, entry.coupler),
                          Cmd("DRV:U", NoArg, NoArg)>>
         IN  IF IsModeHop(s, value) /\ s.anti_hyst_enabled
             THEN Outcome("none", "", preload \o Antihyst(s, value), 1)
             ELSE Outcome("none", "", preload, 0)

\* a slip of the key test: an untabulated wavelength loads the first cycler index
CyclerIndexSetWlUntabulated(s, value) ==
    IF value \notin DOMAIN s.calibration
    THEN Outcome("none", "", <<Cmd("DRV:CYC:LOAD", 0, NoArg)>>, 0)
    ELSE LET load == <<Cmd("DRV:CYC:LOAD", s.calibration[value].cycler_index, NoArg)>>
         IN  IF s.anti_hyst_enabled
             THEN Outcome("none", "", load \o Antihyst(s, value), 1)
             ELSE Outcome("none", "", load, 0)

\* _CyclerIndex.set_wl
CyclerIndexSetWl(s, value) ==
    IF value \notin DOMAIN s.calibration
    THEN Outcome("ValueError", "not found", <<>>, 0)
    ELSE LET load == <<Cmd("DRV:CYC:LOAD", s.calibration[value].cycler_index, NoArg)>>
         IN  IF s.anti_hyst_enabled
             THEN Outcome("none", "", load \o Antihyst(s, value), 1)
             ELSE Outcome("none", "", load, 0)

\* self._change_method.set_wl(value)
SetWl(s, value) ==
    IF s.change_method = "_PreLoad" THEN PreLoadSetWl(s, value)
    ELSE CyclerIndexSetWl(s, value)

\* a slip of the bounds test: only the lower bound is tested
OutOfBoundsBelowOnly(s, value) == value < s.min_wl

\* `value < self._min_wl or value > self._max_wl`
OutOfBounds(s, value) == value < s.min_wl \/ value > s.max_wl

\* SteadyMode.__init__ over a table, a model and anti-hysteresis parameters
SteadyMode(m, table, offset) ==
    [state |-> "ready", calibration |-> table,
     min_wl |-> SetMin(DOMAIN table), max_wl |-> SetMax(DOMAIN table),
     wl |-> SetMin(DOMAIN table), autoTrig |-> FALSE,
     change_method |-> IF m = "COMET" THEN "_PreLoad" ELSE "_CyclerIndex",
     antihyst_offset |-> offset, anti_hyst_enabled |-> TRUE]

\* SteadyMode.wavelength (setter)
SetWavelength ==
    /\ steady.state = "ready"
    /\ \E value \in Requested :
         IF OutOfBounds(steady, value)
         THEN /\ last' = Op("steady.wavelength", value, steady.wl,
                            "ValueError", "bounds", <<>>, 0)
              /\ steady' = steady
         ELSE LET r == SetWl(steady, value)
              IN  IF r.raised # "none"
                  THEN /\ last' = Op("steady.wavelength", value, steady.wl,
                                     r.raised, r.msg, r.sent, r.ramps)
                       /\ steady' = steady
                  ELSE /\ steady' = [steady EXCEPT !.wl = value]
                       /\ last' = Op("steady.wavelength", value, steady.wl, "none", "",
                                     r.sent \o (IF steady.autoTrig THEN TriggerPulse
                                                ELSE <<>>),
                                     r.ramps)
    /\ UNCHANGED calVars
    /\ UNCHANGED <<sweep, header, laser, device>>

\* SteadyMode.antihyst (setter) and toggle_antihyst
SetAntihyst ==
    /\ steady.state = "ready"
    /\ \E value \in BOOLEAN :
         /\ steady' = [steady EXCEPT !.anti_hyst_enabled = value]
         /\ last' = Op("steady.antihyst", NoArg, steady.wl, "none", "", <<>>, 0)
    /\ UNCHANGED calVars
    /\ UNCHANGED <<sweep, header, laser, device>>

\* __Calibrated.autoTrig (setter) and toggle_autoTrig
SetAutoTrig ==
    /\ steady.state = "ready"
    /\ \E value \in BOOLEAN :
         /\ steady' = [steady EXCEPT !.autoTrig = value]
         /\ last' = Op("steady.autoTrig", NoArg, steady.wl, "none", "", <<>>, 0)
    /\ UNCHANGED calVars
    /\ UNCHANGED <<sweep, header, laser, device>>

SteadyInit ==
    /\ model \in {"ATLAS", "COMET"}
    /\ rows = <<>>
    /\ entries = <<>>
    /\ cycler_index = 0
    /\ mode_index = 1
    /\ in_hop = FALSE
    /\ pc = "steady"
    /\ cal = NoCal
    /\ result = NoResult
    /\ \E table \in SteadyTables, offset \in AntiHystOffsets :
           steady = SteadyMode(model, table, offset)
    /\ sweep = NoSweep
    /\ last = NoOp
    /\ header = NoHeader
    /\ laser = NoLaser
    /\ device = NoDevice

SteadyNext == SetWavelength \/ SetAntihyst \/ SetAutoTrig

SpecSteady == SteadyInit /\ [][SteadyNext]_vars

-----------------------------------------------------------------------------
(* Properties of the Steady mode (SpecSteady) *)

SetDone == last.op = "steady.wavelength"

SetOk == SetDone /\ last.raised = "none"

\* the values written to the phase-section channel by the last operation
PhaseWrites ==
    SelectSeq(last.sent, LAMBDA c : c.cmd = "DRV:D" /\ c.a = PHASE_SECTION)

\* C6: a wavelength below min_wavelength or above max_wavelength is rejected with
\* the bounds error, no command is sent and the remembered wavelength stays.
C6_OutOfBoundsRejected ==
    (SetDone /\ (last.value < steady.min_wl \/ last.value > steady.max_wl))
        => /\ last.raised = "ValueError"
           /\ last.msg = "bounds"
           /\ last.sent = <<>>
           /\ steady.wl = last.prev_wl

\* a set of a wavelength above the table's maximum has been rejected
C6_Witness ==
    /\ SetDone
    /\ last.value > steady.max_wl
    /\ last.raised = "ValueError"

\* C7: with the Preload strategy a successful change runs the ramp once when
\* anti-hysteresis is enabled and the mode indices of the previous and of the new
\* entry differ, and not at all otherwise.
C7_RampOncePerModeChange ==
    (SetOk /\ steady.change_method = "_PreLoad")
        => last.ramps =
              IF /\ steady.anti_hyst_enabled
                 /\ steady.calibration[last.prev_wl].mode_index
                        # steady.calibration[last.value].mode_index
              THEN 1 ELSE 0

\* a Preload change from an entry of one mode index to an entry of another, with
\* anti-hysteresis enabled, has run the ramp once
C7_Witness ==
    /\ SetOk
    /\ steady.change_method = "_PreLoad"
    /\ steady.anti_hyst_enabled
    /\ steady.calibration[last.prev_wl].mode_index
           # steady.calibration[last.value].mode_index
    /\ last.ramps = 1

\* C8: when a change runs the ramp, every ramp value is sqrt(v^2 + offset) for the
\* phase voltage v of the entry being set, and the last value written to the
\* phase-section channel is v.
C8_RampEndsAtTarget ==
    (SetOk /\ last.ramps > 0)
        => LET v == steady.calibration[last.value].phase_section
           IN  /\ PhaseWrites # <<>>
               /\ PhaseWrites[Len(PhaseWrites)].b = v
               /\ \A i \in DOMAIN PhaseWrites :
                      \E o \in 0..steady.antihyst_offset :
                          PhaseWrites[i].b = RoundSqrt(v * v + o * VoltScale * VoltScale)

-----------------------------------------------------------------------------
(* Sweep mode.  _wavelengths is the list of calibration["sweep"], one slot  *)
(* per table row in file order; positions are 0-based as in Python.        *)

\* list.index(x): the 0-based position of the first occurrence
Index(list, x) == (CHOOSE i \in DOMAIN list :
                      list[i] = x /\ \A j \in 1..(i - 1) : list[j] # x) - 1

\* list.count(x)
Count(list, x) == Cardinality({i \in DOMAIN list : list[i] = x})

\* SweepMode._find_closest_wavelength
FindClosestWavelength(sw, wavelength) == MinKey(sw.wavelengths, wavelength)

\* the wavelength set_bounds works with: the bound itself when it is in the list,
\* else the closest one
Resolved(sw, wl) ==
    IF wl \in Range(sw.wavelengths) THEN wl ELSE FindClosestWavelength(sw, wl)

\* index_start of set_bounds
IndexStart(sw, start_wl) == Index(sw.wavelengths, start_wl)

\* a slip of set_bounds: the end index is that of the first occurrence
IndexEndFirst(sw, end_wl) == Index(sw.wavelengths, end_wl)

\* index_end of set_bounds: first occurrence plus count minus one
IndexEnd(sw, end_wl) == Index(sw.wavelengths, end_wl) + Count(sw.wavelengths, end_wl) - 1

\* `end_wl < self._min_wl or start_wl > self._max_wl`
BoundsOutside(sw, start_wl, end_wl) == end_wl < sw.min_wl \/ start_wl > sw.max_wl

\* a slip of the order test: equal bounds are let through
BoundsInvertedStrict(start_wl, end_wl) == start_wl < end_wl

\* `start_wl <= end_wl`
BoundsInverted(start_wl, end_wl) == start_wl <= end_wl

\* no SPAN command has been written yet
NoSpan == <<>>

\* the firmware's cycler after a cycler command: RUN and CONT set it going, ABRT
\* halts it
CyclerAfter(d, cmd) ==
    [d EXCEPT !.cycler_running =
        IF cmd = "DRV:CYC:ABRT" THEN FALSE
        ELSE IF cmd \in {"DRV:CYC:RUN", "DRV:CYC:CONT"} THEN TRUE
        ELSE @]

\* SweepMode.__init__ over the list of a COMET calibration
SweepMode(list) ==
    [state |-> "ready", wavelengths |-> list, min_wl |-> SetMin(Range(list)),
     max_wl |-> SetMax(Range(list)), no_sweeps |-> 0]

\* SweepMode.set_bounds: the exception it raises or the command it sends
SetBoundsOutcome(sw, start_wl, end_wl) ==
    IF BoundsOutside(sw, start_wl, end_wl)
    THEN Outcome("ValueError", "bounds", <<>>, 0)
    ELSE IF BoundsInverted(start_wl, end_wl)
    THEN Outcome("ValueError", "order", <<>>, 0)
    ELSE LET s == Resolved(sw, start_wl)
             e == Resolved(sw, end_wl)
         IN  Outcome("none", "",
                     <<Cmd("DRV:CYC:SPAN", IndexStart(sw, s), IndexEnd(sw, e))>>, 0)

\* a call of SweepMode.set_bounds
SetBounds ==
    /\ sweep.state = "ready"
    /\ \E start_wl \in Requested, end_wl \in Requested :
         LET r == SetBoundsOutcome(sweep, start_wl, end_wl)
         IN  /\ last' = Op("sweep.set_bounds", <<start_wl, end_wl>>, NoArg,
                           r.raised, r.msg, r.sent, 0)
             /\ device' = IF r.raised = "none"
                          THEN [device EXCEPT !.span = <<r.sent[1].a, r.sent[1].b>>]
                          ELSE device
    /\ sweep' = sweep
    /\ UNCHANGED calVars
    /\ UNCHANGED <<steady, header, laser>>

\* SweepMode.get_bounds over the span the firmware answers "DRV:CYC:SPAN?" with
GetBounds(sw, span) == <<sw.wavelengths[span[1] + 1], sw.wavelengths[span[2] + 1]>>

\* SweepMode.get_points: lower_bound and upper_bound each ask the firmware for the
\* span; the list is sliced from the first occurrence of the lower bound to the
\* first occurrence of the upper bound plus its count minus one.  The span the
\* firmware holds before the first SPAN command is not known, so the read is
\* taken after one has been written.
GetPoints ==
    /\ sweep.state = "ready"
    /\ device.span # NoSpan
    /\ LET lower_bound == GetBounds(sweep, device.span)[1]
           upper_bound == GetBounds(sweep, device.span)[2]
           lower_index == Index(sweep.wavelengths, lower_bound)
           upper_index == Index(sweep.wavelengths, upper_bound)
                          + Count(sweep.wavelengths, upper_bound) - 1
       IN  last' = [op |-> "sweep.get_points", value |-> device.span,
                    raised |-> "none",
                    sent |-> <<Cmd("DRV:CYC:SPAN?", NoArg, NoArg),
                               Cmd("DRV:CYC:SPAN?", NoArg, NoArg)>>,
                    returned |-> SubSeq(sweep.wavelengths, lower_index + 1,
                                        upper_index + 1)]
    /\ sweep' = sweep
    /\ UNCHANGED calVars
    /\ UNCHANGED <<steady, header, laser, device>>

\* SweepMode.number_sweeps (setter)
SetNumberSweeps ==
    /\ sweep.state = "ready"
    /\ \E value \in -1..MaxSweeps :
         IF value < 0
         THEN /\ last' = Op("sweep.number_sweeps", value, NoArg, "ValueError",
                            "negative", <<>>, 0)
              /\ sweep' = sweep
         ELSE /\ last' = Op("sweep.number_sweeps", value, NoArg, "none", "", <<>>, 0)
              /\ sweep' = [sweep EXCEPT !.no_sweeps = value]
    /\ UNCHANGED calVars
    /\ UNCHANGED <<steady, header, laser, device>>

\* SweepMode.start: `given` tells whether number_sweeps is passed
Start ==
    /\ sweep.state = "ready"
    /\ \E given \in BOOLEAN, number_sweeps \in -1..MaxSweeps :
         IF given /\ number_sweeps < 0
         THEN /\ last' = Op("sweep.start", number_sweeps, NoArg, "ValueError",
                            "negative", <<>>, 0)
              /\ sweep' = sweep
              /\ device' = device
         ELSE LET n == IF given THEN number_sweeps ELSE sweep.no_sweeps
              IN  /\ sweep' = [sweep EXCEPT !.no_sweeps = n]
                  /\ last' = Op("sweep.start", n, NoArg, "none", "",
                                <<Cmd("DRV:CYC:RUN", n, NoArg)>>, 0)
                  /\ device' = CyclerAfter(device, "DRV:CYC:RUN")
    /\ UNCHANGED calVars
    /\ UNCHANGED <<steady, header, laser>>

\* SweepMode.stop
Stop ==
    /\ sweep.state = "ready"
    /\ last' = Op("sweep.stop", NoArg, NoArg, "none", "",
                  <<Cmd("DRV:CYC:ABRT", NoArg, NoArg)>>, 0)
    /\ sweep' = sweep
    /\ device' = CyclerAfter(device, "DRV:CYC:ABRT")
    /\ UNCHANGED calVars
    /\ UNCHANGED <<steady, header, laser>>

\* SweepMode.resume
Resume ==
    /\ sweep.state = "ready"
    /\ last' = Op("sweep.resume", NoArg, NoArg, "none", "",
                  <<Cmd("DRV:CYC:CONT", NoArg, NoArg)>>, 0)
    /\ sweep' = sweep
    /\ device' = CyclerAfter(device, "DRV:CYC:CONT")
    /\ UNCHANGED calVars
    /\ UNCHANGED <<steady, header, laser>>

\* the firmware ends a run of a finite number of sweeps by itself
CyclerFinished ==
    /\ sweep.state = "ready"
    /\ device.cycler_running
    /\ sweep.no_sweeps > 0
    /\ device' = [device EXCEPT !.cycler_running = FALSE]
    /\ last' = Op("cycler.finished", NoArg, NoArg, "none", "", <<>>, 0)
    /\ sweep' = sweep
    /\ UNCHANGED calVars
    /\ UNCHANGED <<steady, header, laser>>

SweepInit ==
    /\ model = "COMET"
    /\ rows = <<>>
    /\ entries = <<>>
    /\ cycler_index = 0
    /\ mode_index = 1
    /\ in_hop = FALSE
    /\ pc = "sweep"
    /\ cal = NoCal
    /\ result = NoResult
    /\ steady = NoSteady
    /\ \E list \in SeqsUpTo(Wavelengths, MaxRows) \ {<<>>} : sweep = SweepMode(list)
    /\ last = NoOp
    /\ header = NoHeader
    /\ laser = NoLaser
    /\ device = [cycler_running |-> FALSE, span |-> NoSpan]

SweepNext ==
    SetBounds \/ GetPoints \/ SetNumberSweeps \/ Start \/ Stop \/ Resume \/ CyclerFinished

SpecSweep == SweepInit /\ [][SweepNext]_vars

-----------------------------------------------------------------------------
(* Properties of the Sweep mode (SpecSweep) *)

BoundsDone == last.op = "sweep.set_bounds"

StartWl == last.value[1]

EndWl == last.value[2]

InSweepRange(wl) == sweep.min_wl <= wl /\ wl <= sweep.max_wl

Rejected == last.raised = "ValueError" /\ last.sent = <<>>

\* 0-based positions at which `wl` stands in the list
Positions(wl) == {i - 1 : i \in {j \in DOMAIN sweep.wavelengths : sweep.wavelengths[j] = wl}}

Slice(list, i, j) == SubSeq(list, i + 1, j + 1)

\* C30: for every wavelength list of a Sweep mode, a span command set_bounds
\* sends has indices with 0 <= index_start <= index_end <= len(wavelengths) - 1,
\* and get_points, read after a successful set_bounds, returns the wavelengths at
\* the positions index_start..index_end of the list.
C30_SpanWithinListAndPointsAreTheSpan ==
    /\ (last # NoOp /\ last.op = "sweep.set_bounds" /\ last.raised = "none")
          => /\ 0 <= last.sent[1].a
             /\ last.sent[1].a <= last.sent[1].b
             /\ last.sent[1].b <= Len(sweep.wavelengths) - 1
    /\ (last # NoOp /\ last.op = "sweep.get_points")
          => last.returned = Slice(sweep.wavelengths, last.value[1], last.value[2])

-----------------------------------------------------------------------------
(* The phase-section heater (phase_section.py).  Its values are integers   *)
(* in units of 1e-3 V, the resolution of the "%.3f" its setter writes      *)
(* with; offsets are in V^2 and hold times in ms.  The ramp writes with    *)
(* "%.4f"; the model keeps the setter's resolution for it.                 *)

\* "%.3f": one unit is 1e-3 V
MilliVolt == 1000

\* Defaults.TUNE_ANTI_HYST: the offsets and the hold times
TuneAntiHyst == [voltages |-> <<35, 0>>, times |-> <<10>>]

\* the time_steps of get_antihyst_method: a single hold time stands before every
\* step but the last, and 0 is put at the end
HoldTimes(voltage_steps, time_steps) ==
    IF Len(time_steps) = 1
    THEN [i \in 1..Len(voltage_steps) |->
             IF i < Len(voltage_steps) THEN time_steps[1] ELSE 0]
    ELSE time_steps \o <<0>>

\* a slip of the ramp: the value is written as computed, beyond the limits too
RampValueUnclamped(v_phase, voltage_step, phase_min, phase_max) ==
    LET x == v_phase * v_phase + voltage_step * MilliVolt * MilliVolt
    IN  IF x < 0 THEN 0 ELSE RoundSqrt(x)

\* one value of the ramp: sqrt(v_phase**2 + voltage_step), 0 for a negative
\* radicand, and the closest limit for a value outside the limits
RampValue(v_phase, voltage_step, phase_min, phase_max) ==
    LET x == v_phase * v_phase + voltage_step * MilliVolt * MilliVolt
        value == IF x < 0 THEN 0 ELSE RoundSqrt(x)
        capped == IF value < phase_max THEN value ELSE phase_max
    IN  IF value < phase_min \/ value > phase_max
        THEN (IF capped > phase_min THEN capped ELSE phase_min)
        ELSE value

\* the function get_antihyst_method returns, called with a phase voltage: the
\* values it writes and the time it sleeps after each
PhaseAntihyst(ps, v_phase) ==
    [i \in DOMAIN ps.voltage_steps |->
        [value |-> RampValue(v_phase, ps.voltage_steps[i], ps.min, ps.max),
         hold |-> ps.time_steps[i]]]

\* PhaseSection.__init__: the limits the device reports, anti-hysteresis enabled,
\* and the ramp of get_antihyst_method(laser), which takes the offsets of the
\* defaults for the hold times as well; given_times is the time_steps argument the
\* ramp was built from
PhaseSection(phase_min, phase_max) ==
    [min |-> phase_min, max |-> phase_max, anti_hyst_enabled |-> TRUE,
     voltage_steps |-> TuneAntiHyst.voltages,
     given_times |-> TuneAntiHyst.voltages,
     time_steps |-> HoldTimes(TuneAntiHyst.voltages, TuneAntiHyst.voltages)]

\* PhaseSection.calibrate: the ramp of the calibration's tune settings
Calibrated(ps, tune_settings) ==
    [ps EXCEPT !.voltage_steps = tune_settings.voltages,
               !.given_times = tune_settings.times,
               !.time_steps = HoldTimes(tune_settings.voltages, tune_settings.times)]

\* PhaseSection.value (setter): the result with the holds of the ramp
PhaseSectionValue(ps, value) ==
    IF value < ps.min \/ value > ps.max
    THEN [raised |-> "ValueError", sent |-> <<>>, holds |-> <<>>]
    ELSE IF ps.anti_hyst_enabled
    THEN LET ramp == PhaseAntihyst(ps, value)
         IN  [raised |-> "none",
              sent |-> [i \in DOMAIN ramp |-> Cmd("DRV:D", PHASE_SECTION, ramp[i].value)],
              holds |-> [i \in DOMAIN ramp |-> ramp[i].hold]]
    ELSE [raised |-> "none", sent |-> <<Cmd("DRV:D", PHASE_SECTION, value)>>,
          holds |-> <<>>]

\* the anti-hysteresis settings a calibration may hold: the usual one, one that does
\* not end with the zero offset, one with a negative offset and a hold per step
TuneSettings ==
    {[voltages |-> <<35, 0>>, times |-> <<10>>],
     [voltages |-> <<35, 10>>, times |-> <<10>>],
     [voltages |-> <<-1, 3, 0>>, times |-> <<10, 5, 5>>]}

\* the limits of the phase-section channel
PhaseLimits == {[min |-> 0, max |-> 15 * MilliVolt], [min |-> MilliVolt, max |-> 3 * MilliVolt]}

\* phase voltages asked for
PhaseValues == {0, MilliVolt \div 2, MilliVolt, 3 * MilliVolt, 15 * MilliVolt, 16 * MilliVolt}

\* PhaseSection.anti_hyst (setter) with a boolean
PhaseAntiHyst ==
    /\ pc \in {"phase_section", "laser"}
    /\ \E value \in BOOLEAN :
          /\ laser' = [laser EXCEPT !.phase_section.anti_hyst_enabled = value]
          /\ last' = [op |-> "phase_section.anti_hyst", value |-> value]
    /\ UNCHANGED <<model, rows, entries, cycler_index, mode_index, in_hop, pc, cal,
                   result, steady, sweep, header, device>>

\* PhaseSection.calibrate
PhaseCalibrate ==
    /\ pc \in {"phase_section", "laser"}
    /\ \E tune_settings \in TuneSettings :
          /\ laser' = [laser EXCEPT !.phase_section = Calibrated(@, tune_settings)]
          /\ last' = [op |-> "phase_section.calibrate", value |-> tune_settings]
    /\ UNCHANGED <<model, rows, entries, cycler_index, mode_index, in_hop, pc, cal,
                   result, steady, sweep, header, device>>

\* a caller assigns PhaseSection.value
PhaseValue ==
    /\ pc = "phase_section"
    /\ \E value \in PhaseValues :
          LET r == PhaseSectionValue(laser.phase_section, value)
          IN  last' = [op |-> "phase_section.value", value |-> value,
                       raised |-> r.raised, sent |-> r.sent, holds |-> r.holds]
    /\ UNCHANGED <<model, rows, entries, cycler_index, mode_index, in_hop, pc, cal,
                   result, steady, sweep, header, laser, device>>

\* a caller runs the function get_antihyst_method returned, with a phase voltage
PhaseRamp ==
    /\ pc = "phase_section"
    /\ \E v_phase \in PhaseValues :
          LET ramp == PhaseAntihyst(laser.phase_section, v_phase)
          IN  last' = [op |-> "antihyst", value |-> v_phase, raised |-> "none",
                       sent |-> [i \in DOMAIN ramp |->
                                    Cmd("DRV:D", PHASE_SECTION, ramp[i].value)],
                       holds |-> [i \in DOMAIN ramp |-> ramp[i].hold]]
    /\ UNCHANGED <<model, rows, entries, cycler_index, mode_index, in_hop, pc, cal,
                   result, steady, sweep, header, laser, device>>

PhaseInit ==
    /\ model = "ATLAS"
    /\ rows = <<>>
    /\ entries = <<>>
    /\ cycler_index = 0
    /\ mode_index = 1
    /\ in_hop = FALSE
    /\ pc = "phase_section"
    /\ cal = NoCal
    /\ result = NoResult
    /\ steady = NoSteady
    /\ sweep = NoSweep
    /\ last = NoOp
    /\ header = NoHeader
    /\ \E limits \in PhaseLimits :
          laser = [state |-> "heater",
                   phase_section |-> PhaseSection(limits.min, limits.max)]
    /\ device = NoDevice

PhaseNext == PhaseValue \/ PhaseRamp \/ PhaseAntiHyst \/ PhaseCalibrate

SpecPhase == PhaseInit /\ [][PhaseNext]_vars

-----------------------------------------------------------------------------
(* The Laser and its modes (laser.py).  A string is the sequence of its    *)
(* characters.  A mode object is known by its class and by the laser that  *)
(* owns it; None is the reference to no object.                            *)

UpperCase == <<"A", "B", "C", "D", "E", "F", "G", "H", "I", "J", "K", "L", "M", "N", "O", "P", "Q", "R", "S", "T", "U", "V", "W", "X", "Y", "Z">>

LowerCase == <<"a", "b", "c", "d", "e", "f", "g", "h", "i", "j", "k", "l", "m", "n", "o", "p", "q", "r", "s", "t", "u", "v", "w", "x", "y", "z">>

\* str.lower() of one character
LowerChar(c) ==
    IF \E i \in DOMAIN UpperCase : UpperCase[i] = c
    THEN LowerCase[CHOOSE i \in DOMAIN UpperCase : UpperCase[i] = c]
    ELSE c

\* str.lower()
Lower(s) == [i \in DOMAIN s |-> LowerChar(s[i])]

\* LaserMode(Enum): the value of a tag
LaserModeValue(tag) ==
    CASE tag = "MANUAL" -> <<"M", "a", "n", "u", "a", "l">>
      [] tag = "SWEEP" -> <<"S", "w", "e", "e", "p">>
      [] tag = "STEADY" -> <<"S", "t", "e", "a", "d", "y">>

None == [class |-> "None", owner |-> "none"]

\* the mode_mappings dict of the setter: name -> attribute of the laser
ModeMappings ==
    <<[key |-> <<"m", "a", "n", "u", "a", "l">>, value |-> "manual_mode"],
      [key |-> <<"s", "t", "e", "a", "d", "y">>, value |-> "steady_mode"],
      [key |-> <<"s", "w", "e", "e", "p">>, value |-> "sweep_mode"],
      [key |-> <<"m", "a", "n", "u", "e", "l">>, value |-> "manual_mode"],
      [key |-> <<"m", "a", "n", "u", "a">>, value |-> "manual_mode"],
      [key |-> <<"m", "a", "n">>, value |-> "manual_mode"],
      [key |-> <<"s", "t", "e", "a", "d", "i">>, value |-> "steady_mode"],
      [key |-> <<"s", "t", "e", "a", "d">>, value |-> "steady_mode"],
      [key |-> <<"s", "t", "e">>, value |-> "steady_mode"],
      [key |-> <<"s", "w", "e", "p">>, value |-> "sweep_mode"],
      [key |-> <<"s", "w", "p">>, value |-> "sweep_mode"],
      [key |-> <<"s", "w", "e", "a", "p">>, value |-> "sweep_mode"],
      [key |-> <<"s", "w", "e", "e", "p", "i", "n">>, value |-> "sweep_mode"],
      [key |-> <<"s", "w", "e", "e", "p", "i", "n", "g">>, value |-> "sweep_mode"]>>

\* the modes of a laser's own: ManualMode(self), SteadyMode(self, calibration) and,
\* for a COMET, SweepMode(self, calibration)
ManualModeOf(owner) == [class |-> "ManualMode", owner |-> owner]

SteadyModeOf(owner, tec_temp) ==
    [class |-> "SteadyMode", owner |-> owner,
     default_TEC |-> tec_temp, default_current |-> 280]

SweepModeOf(owner, list, tec_temp) ==
    [class |-> "SweepMode", owner |-> owner, sweep |-> SweepMode(list),
     default_TEC |-> tec_temp, default_current |-> 300, default_cycler_interval |-> 100]

\* TEC targets a calibration file may ask for; the second is beyond the TEC's limit
TecTargets == {25, 60}

\* the sweep lists of the lasers: two wavelengths, or one only
LaserLists == {<<2, 1>>, <<1>>}

\* Laser.__init__: components with the limits the device reports, the modes, and
\* the Manual mode as the active one
Laser(m, list, steady_tec, sweep_tec) ==
    [state |-> "ready", model |-> m,
     tec |-> [min |-> 10, max |-> 50],
     diode |-> [min |-> 0, max |-> 400],
     heaters |-> [min |-> 0, max |-> 15 * MilliVolt],
     phase_section |-> PhaseSection(0, 15 * MilliVolt),
     manual_mode |-> ManualModeOf("self"),
     steady_mode |-> SteadyModeOf("self", steady_tec),
     sweep_mode |-> IF m = "COMET" THEN SweepModeOf("self", list, sweep_tec) ELSE None,
     mode |-> ManualModeOf("self")]

\* Mode.mode of a mode object
ModeTag(mode) ==
    CASE mode.class = "ManualMode" -> "MANUAL"
      [] mode.class = "SteadyMode" -> "STEADY"
      [] mode.class = "SweepMode" -> "SWEEP"

\* one step after another: an exception ends the sequence
Then(o1, o2) ==
    IF o1.raised # "none" THEN o1
    ELSE Outcome(o2.raised, o2.msg, o1.sent \o o2.sent, 0)

\* a setter of a component value: the limits are tested, then the command is sent
SetWithin(value, lo, hi, cmd) ==
    IF value < lo \/ value > hi
    THEN Outcome("ValueError", "limits", <<>>, 0)
    ELSE Outcome("none", "", <<cmd>>, 0)

\* TEC.target (setter)
TecTarget(l, target) ==
    SetWithin(target, l.tec.min, l.tec.max, Cmd("TEC:TTGT", target, NoArg))

\* Diode.current (setter)
DiodeCurrent(l, current_ma) ==
    SetWithin(current_ma, l.diode.min, l.diode.max, Cmd("LSR:ILEV", current_ma, NoArg))

\* Heater.value (setter) of the heater on channel `ch`
HeaterValue(l, ch, value) ==
    SetWithin(value, l.heaters.min, l.heaters.max, Cmd("DRV:D", ch, value))

\* SweepMode.cycler_interval (setter)
CyclerInterval(value) ==
    IF 20 > value \/ value > 50000
    THEN Outcome("ValueError", "interval", <<>>, 0)
    ELSE Outcome("none", "", <<Cmd("DRV:CYC:INT", value, NoArg)>>, 0)

\* ManualMode.apply_defaults: every heater to zero, in the order of _heaters; the
\* phase section is set through the setter of PhaseSection
ManualApplyDefaults(l) ==
    LET r == PhaseSectionValue(l.phase_section, 0)
    IN  Then(Outcome(r.raised, IF r.raised = "none" THEN "" ELSE "limits", r.sent, 0),
        Then(HeaterValue(l, 1, 0),
        Then(HeaterValue(l, 2, 0), HeaterValue(l, 3, 0))))

\* SteadyMode.apply_defaults
SteadyApplyDefaults(l, mode) ==
    Then(TecTarget(l, mode.default_TEC), DiodeCurrent(l, mode.default_current))

\* SweepMode.apply_defaults
SweepApplyDefaults(l, mode) ==
    Then(TecTarget(l, mode.default_TEC),
    Then(DiodeCurrent(l, mode.default_current),
    Then(SetBoundsOutcome(mode.sweep, mode.sweep.max_wl, mode.sweep.min_wl),
         CyclerInterval(mode.default_cycler_interval))))

\* self._mode.apply_defaults()
ApplyDefaults(l, mode) ==
    CASE mode.class = "ManualMode" -> ManualApplyDefaults(l)
      [] mode.class = "SteadyMode" -> SteadyApplyDefaults(l, mode)
      [] mode.class = "SweepMode" -> SweepApplyDefaults(l, mode)

\* what a caller may assign to Laser.mode: a tag of LaserMode, a string, an
\* instance of one of the three mode classes (of this laser or of another), or a
\* value of another type
ModeRequests ==
    [type : {"LaserMode"}, value : {"MANUAL", "STEADY", "SWEEP"}]
    \cup [type : {"str"},
          value : {<<"m", "a", "n", "u", "a", "l">>, <<"S", "t", "e", "a", "d", "y">>,
                   <<"S", "W", "E", "E", "P">>, <<"s", "w", "p">>, <<"s", "t", "e">>,
                   <<"f", "o", "o">>, <<"s", "t", "e", "a", "d", "y", " ">>, <<>>}]
    \cup [type : {"Mode"}, value : {ManualModeOf("other"), ManualModeOf("self"),
                                    SteadyModeOf("other", 25),
                                    SweepModeOf("other", <<2, 1>>, 25)}]
    \cup [type : {"int"}, value : {0}]

\* the attribute of the laser that holds its mode object of a class
AttributeOf(class) ==
    CASE class = "ManualMode" -> "manual_mode"
      [] class = "SteadyMode" -> "steady_mode"
      [] class = "SweepMode" -> "sweep_mode"

\* a slip of the setter: the instance given becomes the active mode
AssignedForInstanceGiven(l, instance) == instance

\* the isinstance branches of the setter: the laser's own mode of the instance's class
AssignedForInstance(l, instance) == l[AttributeOf(instance.class)]

\* the string branch of the setter: the lower-cased name is looked up; a name that
\* is not in the table leaves self._mode as it is
AssignedForName(l, name) ==
    IF DictHas(ModeMappings, Lower(name))
    THEN l[DictGet(ModeMappings, Lower(name))]
    ELSE l.mode

SetterOutcome(mode, raised, calls, sent) ==
    [mode |-> mode, raised |-> raised, calls |-> calls, sent |-> sent]

\* the end of the setter: self._mode.apply_defaults()
ApplyActive(l, mode) ==
    IF mode = None
    THEN SetterOutcome(mode, "AttributeError", <<>>, <<>>)
    ELSE LET r == ApplyDefaults(l, mode)
         IN  SetterOutcome(mode, r.raised, <<mode.class>>, r.sent)

\* Laser.mode (setter)
ModeSetter(l, req) ==
    IF req.type = "Mode"
    THEN ApplyActive(l, AssignedForInstance(l, req.value))
    ELSE IF req.type \in {"str", "LaserMode"}
    THEN LET name == IF req.type = "LaserMode" THEN LaserModeValue(req.value)
                     ELSE req.value
             mode == AssignedForName(l, name)
         IN  IF mode = None
             THEN SetterOutcome(mode, "NotImplementedError", <<>>, <<>>)
             ELSE ApplyActive(l, mode)
    ELSE SetterOutcome(l.mode, "ValueError", <<>>, <<>>)

\* the record of an operation on the laser: what was asked, the active mode before
\* it, the exception raised, the object returned, the modes whose apply_defaults
\* was invoked, and the commands sent
LaserOp(name, value, prev, raised, returned, calls, sent) ==
    [op |-> name, value |-> value, prev_mode |-> prev, raised |-> raised,
     returned |-> returned, calls |-> calls, sent |-> sent]

\* laser.mode = req, and its alias set_mode(req)
SetMode ==
    /\ laser.state = "ready"
    /\ \E req \in ModeRequests :
         LET r == ModeSetter(laser, req)
         IN  /\ laser' = [laser EXCEPT !.mode = r.mode]
             /\ last' = LaserOp("laser.mode=", req, laser.mode, r.raised, None,
                                r.calls, r.sent)
    /\ UNCHANGED calVars
    /\ UNCHANGED <<steady, sweep, header, device>>

Returned(raised, returned) == [raised |-> raised, returned |-> returned]

\* Laser.mode (getter): self._mode.mode
ModeGetter(l) ==
    IF l.mode = None THEN Returned("AttributeError", None)
    ELSE Returned("none", ModeTag(l.mode))

\* a slip of the accessor: the mode object is handed out whatever the active mode
SteadyGetterUnchecked(l) == Returned("none", l.steady_mode)

\* Laser.steady
SteadyGetter(l) ==
    IF l.steady_mode = None THEN Returned("NotImplementedError", None)
    ELSE IF ModeGetter(l).raised # "none" THEN ModeGetter(l)
    ELSE IF ModeGetter(l).returned # "STEADY" THEN Returned("NotImplementedError", None)
    ELSE Returned("none", l.steady_mode)

\* Laser.sweep
SweepGetter(l) ==
    IF l.sweep_mode = None THEN Returned("NotImplementedError", None)
    ELSE IF ModeGetter(l).raised # "none" THEN ModeGetter(l)
    ELSE IF ModeGetter(l).returned # "SWEEP" THEN Returned("NotImplementedError", None)
    ELSE Returned("none", l.sweep_mode)

\* Laser.manual
ManualGetter(l) ==
    IF ModeGetter(l).raised # "none" THEN ModeGetter(l)
    ELSE IF ModeGetter(l).returned # "MANUAL" THEN Returned("NotImplementedError", None)
    ELSE Returned("none", l.manual_mode)

\* a read of one of the properties of the laser; nothing is assigned
Read(name, r) ==
    /\ laser.state = "ready"
    /\ last' = LaserOp(name, NoArg, laser.mode, r.raised, r.returned, <<>>, <<>>)
    /\ laser' = laser
    /\ UNCHANGED calVars
    /\ UNCHANGED <<steady, sweep, header, device>>

ReadMode == Read("laser.mode", ModeGetter(laser))

ReadSteady == Read("laser.steady", SteadyGetter(laser))

ReadSweep == Read("laser.sweep", SweepGetter(laser))

ReadManual == Read("laser.manual", ManualGetter(laser))

LaserInit ==
    /\ model \in {"ATLAS", "COMET"}
    /\ rows = <<>>
    /\ entries = <<>>
    /\ cycler_index = 0
    /\ mode_index = 1
    /\ in_hop = FALSE
    /\ pc = "laser"
    /\ cal = NoCal
    /\ result = NoResult
    /\ steady = NoSteady
    /\ sweep = NoSweep
    /\ last = NoOp
    /\ header = NoHeader
    /\ \E list \in LaserLists, steady_tec \in TecTargets, sweep_tec \in TecTargets :
           laser = Laser(model, list, steady_tec, sweep_tec)
    /\ device = NoDevice

LaserNext ==
    \/ SetMode \/ ReadMode \/ ReadSteady \/ ReadSweep \/ ReadManual
    \/ PhaseAntiHyst \/ PhaseCalibrate

SpecLaser == LaserInit /\ [][LaserNext]_vars

-----------------------------------------------------------------------------
(* Properties of the mode selection (SpecLaser) *)

ModeSet == last.op = "laser.mode="

\* the lower-cased name is one of the accepted names and aliases
AcceptedName(name) == DictHas(ModeMappings, Lower(name))

\* C11: setting the mode to a string that, lower-cased, is not an accepted name or
\* alias fails with an error; no apply_defaults is invoked and the active mode
\* stays what it was.
C11_UnknownNameRejected ==
    (ModeSet /\ last.value.type = "str" /\ ~AcceptedName(last.value.value))
        => /\ last.raised # "none"
           /\ last.calls = <<>>
           /\ laser.mode = last.prev_mode

\* C12: at any time the active mode is one of the laser's own Manual, Steady or
\* Sweep mode objects and never absent.
C12_ActiveModeIsOwnMode ==
    /\ laser.mode # None
    /\ \/ laser.mode = laser.manual_mode
       \/ laser.mode = laser.steady_mode
       \/ laser.mode = laser.sweep_mode

AccessorRead == last.op \in {"laser.steady", "laser.sweep", "laser.manual"}

AccessorAttribute ==
    CASE last.op = "laser.steady" -> "steady_mode"
      [] last.op = "laser.sweep" -> "sweep_mode"
      [] last.op = "laser.manual" -> "manual_mode"

\* C13: a read of laser.steady, laser.sweep or laser.manual returns the laser's
\* mode object of that kind when it is the active mode and raises otherwise (also
\* when that mode was never initialised); the read leaves the active mode as it
\* was and sends no command.
C13_AccessorOnlyForActiveMode ==
    AccessorRead =>
        LET own == laser[AccessorAttribute]
            active == own # None /\ laser.mode = own
        IN  /\ active => (last.raised = "none" /\ last.returned = own)
            /\ ~active => (last.raised # "none" /\ last.returned = None)
            /\ last.sent = <<>>
            /\ last.calls = <<>>
            /\ laser.mode = last.prev_mode

\* laser.sweep has handed out the Sweep mode of a COMET in Sweep mode
C13_Witness ==
    /\ last.op = "laser.sweep"
    /\ last.raised = "none"
    /\ last.returned = laser.sweep_mode
    /\ laser.mode = laser.sweep_mode

\* the mode asked for: by tag, by accepted name, or by the class of an instance
TagAttribute(tag) ==
    CASE tag = "MANUAL" -> "manual_mode"
      [] tag = "STEADY" -> "steady_mode"
      [] tag = "SWEEP" -> "sweep_mode"

RequestedAttribute(req) ==
    CASE req.type = "LaserMode" -> TagAttribute(req.value)
      [] req.type = "str" -> DictGet(ModeMappings, Lower(req.value))
      [] req.type = "Mode" -> AttributeOf(req.value.class)

Recognised(req) ==
    \/ req.type \in {"LaserMode", "Mode"}
    \/ req.type = "str" /\ AcceptedName(req.value)

\* C14: the laser starts in Manual mode; a successful set by tag, accepted string
\* or mode instance makes the laser's own mode object of the requested kind the
\* active one and invokes the apply_defaults of that mode exactly once, also when
\* it was the active mode already; the reference is replaced before apply_defaults
\* runs.
C14_SetActivatesOwnModeThenDefaults ==
    /\ last = NoOp => laser.mode = laser.manual_mode
    /\ (ModeSet /\ last.raised = "none" /\ Recognised(last.value))
          => LET own == laser[RequestedAttribute(last.value)]
             IN  /\ own # None
                 /\ laser.mode = own
                 /\ laser.mode.owner = "self"
                 /\ last.calls = <<own.class>>
    /\ (ModeSet /\ last.calls # <<>>)
          => /\ Len(last.calls) = 1
             /\ laser.mode # None
             /\ laser.mode.class = last.calls[1]

\* Steady mode was active and has been set again, from the Steady mode object of
\* another laser
C14_Witness ==
    /\ ModeSet
    /\ last.raised = "none"
    /\ last.value.type = "Mode"
    /\ last.value.value.owner = "other"
    /\ last.prev_mode = laser.steady_mode
    /\ laser.mode = laser.steady_mode
    /\ last.calls = <<"SteadyMode">>

-----------------------------------------------------------------------------
(* Start of a sweep while the cycler runs (SpecSweep) *)

\* C15: a call of start with a valid number of sweeps, made while the firmware's
\* cycler is already running, sends no DRV:CYC:RUN command and does not raise.
C15_StartIsNoOpWhileRunning ==
    [][(device.cycler_running /\ last'.op = "sweep.start" /\ last'.value >= 0)
          => (last'.raised = "none" /\ last'.sent = <<>>)]_vars

-----------------------------------------------------------------------------
(* load_calibration: the lines of a calibration file and its header block. *)
(* A piece of text is known by its kind (a word, a number, a list of       *)
(* numbers), by its body (the word in upper case, the number, the numbers  *)
(* of the list) and by how the file spells it: in lower case or not,       *)
(* with blanks around it or not.                                           *)

Text(kind, body, lower, padded) ==
    [kind |-> kind, body |-> body, lower |-> lower, padded |-> padded]

\* a string literal of the code, such as "LASER_MODEL"
Word(w) == Text("word", w, FALSE, FALSE)

NoText == Text("none", "", FALSE, FALSE)

\* str.upper()
Upper(t) == [t EXCEPT !.lower = FALSE]

\* _sanitize: s.strip() ... .upper()
Sanitize(t) == Upper([t EXCEPT !.padded = FALSE])

\* the value of a setting as it is stored: `"[" in value` makes it the list of the
\* floats between the brackets, any other value stays the sanitized string
StoredValue(t) == IF Sanitize(t).kind = "list" THEN Sanitize(t).body ELSE Sanitize(t)

\* float(s) and int(s) of the text of a number
Float(t) == t.body

\* one line of the file
Line(kind, param, value, row) == [kind |-> kind, param |-> param, value |-> value, row |-> row]

DefaultsMarker == Line("[default_settings]", NoText, NoText, BlankRow)

TableMarker == Line("[look_up_table]", NoText, NoText, BlankRow)

BlankLine == Line("blank", NoText, NoText, BlankRow)

\* "param = value"
KeyLine(param, value) == Line("key", param, value, BlankRow)

\* a line of the table
RowLine(row) == Line("row", NoText, NoText, row)

\* what csv.reader yields for a line: the row of a table line, no field for a blank
\* line, one field for any other line (it holds no semicolon)
CsvRow(line) ==
    IF line.kind = "row" THEN line.row
    ELSE IF line.kind = "blank" THEN BlankRow
    ELSE [cells |-> 1, empty |-> FALSE, wl |-> 0, flag |-> <<>>]

\* a slip of the reader: the lines are handed out last line first
CsvRowsReversed(lines) == [i \in DOMAIN lines |-> CsvRow(lines[Len(lines) + 1 - i])]

CsvRows(lines) == [i \in DOMAIN lines |-> CsvRow(lines[i])]

\* the parameters of the header in the order the files list them
TuneParams ==
    <<"LASER_MODEL", "TUNE_DIODE_CURRENT", "TUNE_TEC_TARGET",
      "ANTI_HYST_PHASE_V_SQUARED", "ANTI_HYST_INTERVAL">>

SweepParams == <<"SWEEP_DIODE_CURRENT", "SWEEP_TEC_TARGET", "SWEEP_INTERVAL">>

\* the value a file gives to a parameter; `lower` is the spelling of the file
ValueInFile(param, m, lower) ==
    CASE param = "LASER_MODEL" -> Text("word", m, ~lower, lower)
      [] param = "TUNE_DIODE_CURRENT" -> Text("number", 280, FALSE, lower)
      [] param = "TUNE_TEC_TARGET" -> Text("number", 25, FALSE, lower)
      [] param = "ANTI_HYST_PHASE_V_SQUARED" -> Text("list", <<35, 0>>, FALSE, lower)
      [] param = "ANTI_HYST_INTERVAL" -> Text("list", <<10>>, FALSE, lower)
      [] param = "SWEEP_DIODE_CURRENT" -> Text("number", 300, FALSE, lower)
      [] param = "SWEEP_TEC_TARGET" -> Text("number", 30, FALSE, lower)
      [] param = "SWEEP_INTERVAL" -> Text("number", 100, FALSE, lower)
      [] OTHER -> Text("word", "X", FALSE, lower)

\* the key lines of a file of model `m`: every parameter of the model but `dropped`,
\* and a line of an unknown parameter when `extra`
KeyLines(m, lower, dropped, extra) ==
    LET params == (IF m = "ATLAS" THEN TuneParams ELSE TuneParams \o SweepParams)
                      \o (IF extra THEN <<"SERIAL_NUMBER">> ELSE <<>>)
        kept == SelectSeq(params, LAMBDA p : p # dropped)
    IN  [i \in DOMAIN kept |->
            KeyLine(Text("word", kept[i], lower, lower), ValueInFile(kept[i], m, lower))]

\* rows of the table of a file: blank, of empty fields, short, of six fields and of
\* seven (two columns before the wavelength instead of one)
LongRow == [cells |-> 7, empty |-> FALSE, wl |-> 2, flag |-> <<"1", "5", "5", "5">>]

LoadRows ==
    {BlankRow, EmptyCellsRow, ShortRow, LongRow,
     [cells |-> 6, empty |-> FALSE, wl |-> 1, flag |-> <<"0">>],
     [cells |-> 6, empty |-> FALSE, wl |-> 3, flag |-> <<"1", " ">>]}

\* ModeSetting
ModeSetting(current, tec_temp, anti_hyst_voltages, anti_hyst_times, sweep_interval) ==
    [current |-> current, tec_temp |-> tec_temp,
     anti_hyst_voltages |-> anti_hyst_voltages, anti_hyst_times |-> anti_hyst_times,
     sweep_interval |-> sweep_interval]

\* the outcome of _parse_defaults_block: what it returns, or the parameter whose
\* absence it reports
Parsed(kind, missing, m, tune_settings, sweep_settings) ==
    [kind |-> kind, missing |-> missing, model |-> m,
     tune |-> tune_settings, sweep |-> sweep_settings]

NoParsed == Parsed("none", "", "", None, None)

\* the parameters popped after LASER_MODEL, in the order of the pops
PoppedFor(is_atlas) ==
    IF is_atlas THEN Tail(TuneParams) ELSE Tail(TuneParams) \o SweepParams

\* a slip of the model test: no model has a sweep block
IsAtlasAlways(m) == TRUE

\* `model == "ATLAS"`
IsAtlas(m) == m = Word("ATLAS")

\* the try block of _parse_defaults_block over the settings read
ParseSettings(settings) ==
    IF ~DictHas(settings, Word("LASER_MODEL"))
    THEN Parsed("CalibrationError", "LASER_MODEL", "", None, None)
    ELSE LET m == Upper(DictGet(settings, Word("LASER_MODEL")))
             popped == PoppedFor(IsAtlas(m))
             absent == {i \in DOMAIN popped : ~DictHas(settings, Word(popped[i]))}
             get(p) == DictGet(settings, Word(p))
         IN  IF absent # {}
             THEN Parsed("CalibrationError", popped[SetMin(absent)], "", None, None)
             ELSE Parsed("returned", "", m.body,
                         ModeSetting(Float(get("TUNE_DIODE_CURRENT")),
                                     Float(get("TUNE_TEC_TARGET")),
                                     get("ANTI_HYST_PHASE_V_SQUARED"),
                                     get("ANTI_HYST_INTERVAL"), None),
                         IF IsAtlas(m) THEN None
                         ELSE ModeSetting(Float(get("SWEEP_DIODE_CURRENT")),
                                          Float(get("SWEEP_TEC_TARGET")),
                                          None, None, Float(get("SWEEP_INTERVAL"))))

\* the file as load_calibration opens it
Header(file) ==
    [state |-> "open", file |-> file, unread |-> file, settings |-> <<>>,
     parsed |-> NoParsed, tune |-> None, sweep |-> None]

\* load_calibration: the first line is read.  When it does not hold
\* [default_settings] the file is rewound, the hard-coded defaults are taken and
\* every line of the file is left to _parse_rows
ReadFirstLine ==
    /\ pc = "first_line"
    /\ IF header.unread # <<>> /\ Head(header.unread).kind = "[default_settings]"
       THEN /\ pc' = "defaults"
            /\ header' = [header EXCEPT !.unread = Tail(@)]
            /\ UNCHANGED <<model, rows>>
       ELSE /\ pc' = "rows"
            /\ model' = "ATLAS"
            /\ rows' = CsvRows(header.file)
            /\ header' = [header EXCEPT !.unread = <<>>,
                              !.tune = ModeSetting(280, 25, <<35, 0>>, <<10>>, None),
                              !.sweep = None]
    /\ UNCHANGED <<entries, cycler_index, mode_index, in_hop, cal, result,
                   steady, sweep, last, laser, device>>

\* _parse_defaults_block: one line of the header is read; at the [look_up_table]
\* line the settings are turned into the model and the mode settings, and the rows
\* after it are left to _parse_rows
ReadDefaultsLine ==
    /\ pc = "defaults"
    /\ IF header.unread = <<>>
       THEN /\ pc' = "CalibrationError"
            /\ header' = header
            /\ UNCHANGED <<model, rows>>
       ELSE LET line == Head(header.unread)
            IN  IF line.kind = "[look_up_table]"
                THEN LET r == ParseSettings(header.settings)
                     IN  IF r.kind = "CalibrationError"
                         THEN /\ pc' = "CalibrationError"
                              /\ header' = [header EXCEPT !.unread = Tail(@), !.parsed = r]
                              /\ UNCHANGED <<model, rows>>
                         ELSE /\ pc' = "rows"
                              /\ model' = r.model
                              /\ rows' = CsvRows(Tail(header.unread))
                              /\ header' = [header EXCEPT !.unread = <<>>, !.parsed = r,
                                                !.tune = r.tune, !.sweep = r.sweep]
                ELSE /\ pc' = pc
                     /\ header' =
                          [header EXCEPT
                              !.unread = Tail(@),
                              !.settings = IF line.kind = "key"
                                           THEN DictPut(@, Sanitize(line.param),
                                                        StoredValue(line.value))
                                           ELSE @]
                     /\ UNCHANGED <<model, rows>>
    /\ UNCHANGED <<entries, cycler_index, mode_index, in_hop, cal, result,
                   steady, sweep, last, laser, device>>

\* the files: with or without the [default_settings] line (or with a blank line
\* before it), with or without the [look_up_table] line
LoadInit ==
    /\ model = ""
    /\ rows = <<>>
    /\ entries = <<>>
    /\ cycler_index = 0
    /\ mode_index = 1
    /\ in_hop = FALSE
    /\ pc = "first_line"
    /\ cal = NoCal
    /\ result = NoResult
    /\ steady = NoSteady
    /\ sweep = NoSweep
    /\ last = NoOp
    /\ \E pre \in {<<>>, <<DefaultsMarker>>, <<BlankLine, DefaultsMarker>>},
          m \in {"ATLAS", "COMET"},
          lower \in BOOLEAN,
          dropped \in {""} \cup Range(TuneParams \o SweepParams),
          extra \in BOOLEAN,
          post \in {<<>>, <<TableMarker>>},
          rs \in SeqsUpTo(LoadRows, MaxFileRows) :
           header = Header(pre \o KeyLines(m, lower, dropped, extra) \o post
                               \o [i \in DOMAIN rs |-> RowLine(rs[i])])
    /\ laser = NoLaser
    /\ device = NoDevice

LoadNext == ReadFirstLine \/ ReadDefaultsLine \/ ParseRow \/ Construct

SpecLoad == LoadInit /\ [][LoadNext]_vars

-----------------------------------------------------------------------------
(* Properties of load_calibration (SpecLoad) *)

\* the header block has been read up to its [look_up_table] line
BlockRead == header.parsed.kind # "none"

KeyLinesOf(file) == {i \in DOMAIN file : file[i].kind = "key"}

\* the parameters the file gives, whatever their spelling
GivenParams == {header.file[i].param.body : i \in KeyLinesOf(header.file)}

\* the value the file gives to a parameter
GivenValue(p) ==
    header.file[CHOOSE i \in KeyLinesOf(header.file) : header.file[i].param.body = p]
        .value.body

\* the parameters a header must hold: those of the tune block and, for a model
\* other than ATLAS, those of the sweep block
RequiredParams ==
    Range(TuneParams) \cup
        (IF "LASER_MODEL" \in GivenParams /\ GivenValue("LASER_MODEL") # "ATLAS"
         THEN Range(SweepParams) ELSE {})

\* C16: a header block that lacks a required parameter makes _parse_defaults_block
\* raise CalibrationError for a parameter that is absent; a block that holds all
\* of them parses to the model, the tune settings and the sweep settings with the
\* values given (no sweep settings for ATLAS), whether or not it holds other
\* parameters as well.
C16_RequiredParamsOrCalibrationError ==
    BlockRead =>
        IF RequiredParams \subseteq GivenParams
        THEN /\ header.parsed.kind = "returned"
             /\ header.parsed.model = GivenValue("LASER_MODEL")
             /\ header.parsed.tune =
                    ModeSetting(GivenValue("TUNE_DIODE_CURRENT"),
                                GivenValue("TUNE_TEC_TARGET"),
                                GivenValue("ANTI_HYST_PHASE_V_SQUARED"),
                                GivenValue("ANTI_HYST_INTERVAL"), None)
             /\ header.parsed.sweep =
                    IF GivenValue("LASER_MODEL") = "ATLAS" THEN None
                    ELSE ModeSetting(GivenValue("SWEEP_DIODE_CURRENT"),
                                     GivenValue("SWEEP_TEC_TARGET"),
                                     None, None, GivenValue("SWEEP_INTERVAL"))
        ELSE /\ header.parsed.kind = "CalibrationError"
             /\ header.parsed.missing \in RequiredParams \ GivenParams
             /\ pc = "CalibrationError"
             /\ cal = NoCal

\* the header of a COMET file that also holds an unknown parameter has been parsed
C16_Witness ==
    /\ BlockRead
    /\ header.parsed.kind = "returned"
    /\ header.parsed.sweep # None
    /\ GivenParams \ (Range(TuneParams) \cup Range(SweepParams)) # {}

\* the rows of the file's table, as csv.reader yields them
TableRows ==
    LET is == {i \in DOMAIN header.file : header.file[i].kind = "row"}
    IN  {header.file[i].row : i \in is}

LoadEnded == pc \in {"loaded", "CalibrationError"}

C18_ExtraColumnsRejected ==
    (LoadEnded /\ \E row \in TableRows : row.cells > 6) => pc = "CalibrationError"

\* C19: a Calibration is never built from an empty entry list: the load of a file
\* without data rows, with a valid header or without any, ends in CalibrationError
\* and leaves no Calibration object.
C19_EmptyEntriesRaise ==
    /\ pc = "loaded" => (cal # NoCal /\ cal.entries # <<>>)
    /\ pc # "loaded" => cal = NoCal
    /\ (LoadEnded /\ entries = <<>>) => pc = "CalibrationError"
    /\ (LoadEnded /\ \A row \in TableRows : row.cells = 0 \/ row.empty)
          => pc = "CalibrationError"

\* a file with a valid header and a table of blank rows only has been read to its
\* end and rejected
C19_Witness ==
    /\ pc = "CalibrationError"
    /\ header.parsed.kind = "returned"
    /\ TableRows # {}
    /\ \A row \in TableRows : row.cells = 0 \/ row.empty
    /\ rows = <<>>
    /\ entries = <<>>

\* the non-blank rows of the file's table, in file order
DataRowsOfFile ==
    LET lines == SelectSeq(header.file, LAMBDA l : l.kind = "row")
        table == [i \in DOMAIN lines |-> lines[i].row]
    IN  SelectSeq(table, LAMBDA r : ~(r.cells = 0 \/ r.empty))

\* C21: the entries of a loaded Calibration are the non-blank rows of the file in
\* file order: there are as many entries as such rows, and the entry at position i
\* (counted from 0) holds the wavelength of row i and cycler_index i, whether the
\* row is a hop row or not.
C21_EntriesAreDataRowsInFileOrder ==
    pc = "loaded" =>
        /\ Len(cal.entries) = Len(DataRowsOfFile)
        /\ \A i \in DOMAIN DataRowsOfFile :
              /\ cal.entries[i].wavelength = DataRowsOfFile[i].wl
              /\ cal.entries[i].cycler_index = i - 1

\* a COMET file with a hop row followed by a non-hop row is loaded
C21_Witness ==
    /\ pc = "loaded"
    /\ Len(cal.entries) = 2
    /\ cal.entries[1].mode_hop_flag
    /\ ~cal.entries[2].mode_hop_flag
    /\ cal.entries[1].wavelength # cal.entries[2].wavelength

-----------------------------------------------------------------------------
(* Further properties of the Steady mode (SpecSteady) *)

\* the last set asked for a wavelength between the bounds that the table lacks
UntabulatedAsked ==
    /\ SetDone
    /\ last.value >= steady.min_wl
    /\ last.value <= steady.max_wl
    /\ last.value \notin DOMAIN steady.calibration

\* C22: with the Preload strategy a wavelength between min_wavelength and
\* max_wavelength that is not a key of the table is refused with an error: no
\* preload or apply command is sent and the remembered wavelength stays.
C22_PreloadUntabulatedRefused ==
    (UntabulatedAsked /\ steady.change_method = "_PreLoad")
        => /\ last.raised = "ValueError"
           /\ last.msg = "not found"
           /\ last.sent = <<>>
           /\ steady.wl = last.prev_wl

\* a Preload set of a wavelength in a gap of the table has been refused
C22_Witness ==
    /\ UntabulatedAsked
    /\ steady.change_method = "_PreLoad"
    /\ last.raised = "ValueError"
    /\ last.value > steady.min_wl
    /\ last.value < steady.max_wl

\* the trigger writes of the last operation, and the writes before the first of them
TriggerWrites == SelectSeq(last.sent, LAMBDA c : c.cmd = "DRV:CYC:TRIG")

WritesBeforeTrigger ==
    IF TriggerWrites = <<>> THEN last.sent
    ELSE SubSeq(last.sent, 1,
                (CHOOSE i \in DOMAIN last.sent :
                    /\ last.sent[i].cmd = "DRV:CYC:TRIG"
                    /\ \A j \in 1..(i - 1) : last.sent[j].cmd # "DRV:CYC:TRIG") - 1)

\* C25: a successful wavelength change first sends the writes of the strategy (with
\* the ramp, if any), remembers the wavelength asked for, and then sends the trigger
\* pulse, trigger high followed by trigger low and nothing after it, exactly when
\* auto-trigger is enabled; with auto-trigger off, as it is after construction, no
\* trigger write is sent.
C25_TriggerPulseAfterChange ==
    /\ last = NoOp => ~steady.autoTrig
    /\ SetOk =>
          /\ steady.wl = last.value
          /\ WritesBeforeTrigger # <<>>
          /\ \A i \in DOMAIN WritesBeforeTrigger :
                WritesBeforeTrigger[i].cmd \in {"DRV:DP", "DRV:U", "DRV:D", "DRV:CYC:LOAD"}
          /\ last.sent = WritesBeforeTrigger \o TriggerWrites
          /\ TriggerWrites =
                IF steady.autoTrig
                THEN <<[cmd |-> "DRV:CYC:TRIG", a |-> 1, b |-> NoArg],
                       [cmd |-> "DRV:CYC:TRIG", a |-> 0, b |-> NoArg]>>
                ELSE <<>>
    /\ (SetDone /\ ~SetOk) => TriggerWrites = <<>>

\* a change with a ramp and auto-trigger enabled has ended with the pulse
C25_Witness ==
    /\ SetOk
    /\ steady.autoTrig
    /\ last.ramps = 1
    /\ Len(TriggerWrites) = 2
    /\ last.prev_wl # last.value

\* C29: after construction and after every wavelength set of the Steady mode,
\* accepted or refused, the remembered wavelength lies between min_wavelength and
\* max_wavelength and is a key of the steady calibration table.
C29_CurrentWavelengthIsTabulated ==
    steady.state = "ready"
        => /\ steady.wl \in DOMAIN steady.calibration
           /\ steady.min_wl <= steady.wl
           /\ steady.wl <= steady.max_wl

\* a set has been refused after an accepted one had moved the remembered
\* wavelength away from the one of construction
C29_Witness ==
    /\ last # NoOp
    /\ last.op = "steady.wavelength"
    /\ last.raised = "ValueError"
    /\ steady.wl # steady.min_wl
    /\ steady.wl \in DOMAIN steady.calibration

-----------------------------------------------------------------------------
(* Properties of the phase-section ramp (SpecPhase) *)

\* the last operation ran the anti-hysteresis ramp
RampRun ==
    /\ last # NoOp
    /\ \/ last.op = "antihyst"
       \/ /\ last.op = "phase_section.value"
          /\ last.raised = "none"
          /\ laser.phase_section.anti_hyst_enabled

\* v^2 + offset for step i of the last ramp, in units of 1e-6 V^2
Radicand(i) ==
    last.value * last.value + laser.phase_section.voltage_steps[i] * MilliVolt * MilliVolt

\* w is the square root of x (0 for a negative x) to the nearest unit, brought to
\* the closest of the limits lo and hi when it lies outside them
IsClampedRoot(x, w, lo, hi) ==
    /\ lo <= w /\ w <= hi
    /\ w = hi => x > hi * hi - hi
    /\ w = lo => x <= lo * lo + lo
    /\ (lo < w /\ w < hi) =>
          \/ x < 0 /\ w = 0
          \/ x >= 0 /\ x <= w * w + w /\ (w = 0 \/ x > w * w - w)

\* the writes of a ramp: one per configured offset, in the order of the list, each
\* the clamped root for its offset
RampWritesPerOffset ==
    LET ps == laser.phase_section
    IN  /\ Len(last.sent) = Len(ps.voltage_steps)
        /\ Len(last.holds) = Len(ps.voltage_steps)
        /\ \A i \in DOMAIN last.sent :
              /\ last.sent[i].cmd = "DRV:D"
              /\ last.sent[i].a = 0
              /\ IsClampedRoot(Radicand(i), last.sent[i].b, ps.min, ps.max)

\* C26 as stated: the ramp for a target v writes once per configured offset, in
\* list order, the value sqrt(v^2 + offset) (0 for a negative radicand) clamped
\* into [phase_min, phase_max], and a hold-time list of length 1 gives the hold of
\* every step.
C26_RampOneHoldForEveryStep ==
    RampRun =>
        /\ RampWritesPerOffset
        /\ Len(laser.phase_section.given_times) = 1 =>
              \A i \in DOMAIN last.holds :
                  last.holds[i] = laser.phase_section.given_times[1]

\* C26: the ramp for a target v writes once per configured offset, in list order,
\* the value sqrt(v^2 + offset) (0 for a negative radicand) clamped into
\* [phase_min, phase_max]; a hold-time list of length 1 gives the hold of every
\* step but the last, which is followed by no hold.
C26_RampOneHoldForEveryStepButLast ==
    RampRun =>
        /\ RampWritesPerOffset
        /\ Len(laser.phase_section.given_times) = 1 =>
              \A i \in DOMAIN last.holds :
                  last.holds[i] = IF i < Len(last.holds)
                                  THEN laser.phase_section.given_times[1] ELSE 0

\* a ramp of two steps with a single hold time whose first value was brought down
\* to the upper limit
C26_Witness ==
    /\ RampRun
    /\ Len(last.sent) = 2
    /\ Len(laser.phase_section.given_times) = 1
    /\ last.sent[1].b = laser.phase_section.max
    /\ Radicand(1) > laser.phase_section.max * laser.phase_section.max
    /\ last.holds = <<laser.phase_section.given_times[1], 0>>

-----------------------------------------------------------------------------
(* AtlasLaser (atlas_laser.py): the operating mode, the tuning by cycler    *)
(* table index and the manual heater control.  Voltages are in units of     *)
(* 1e-4 V as in the Steady mode.                                            *)

\* the offset the ramp of phase_anti_hyst starts from, in V^2
DEFAULT_ANTI_HYST_V_PHASE_SQUARED == 20

\* the cycler tables of the lasers: rows of wavelength and heater voltages
AtlasTables ==
    {<<[wavelength |-> 3, phase_section |-> VoltScale, ring_large |-> 3 * VoltScale,
        ring_small |-> 4 * VoltScale, coupler |-> 5 * VoltScale],
       [wavelength |-> 2, phase_section |-> 0, ring_large |-> 3 * VoltScale,
        ring_small |-> 4 * VoltScale, coupler |-> 5 * VoltScale]>>,
     <<[wavelength |-> 1, phase_section |-> 0, ring_large |-> 3 * VoltScale,
        ring_small |-> 4 * VoltScale, coupler |-> 5 * VoltScale]>>}

\* AtlasLaser.__init__ and the loading of the cycler table: no operating mode yet,
\* no index tracked yet
AtlasLaser(table) ==
    [state |-> "atlas", operation_mode |-> "None", idx_active |-> "unset",
     cycler_table |-> table]

\* AtlasLaser.phase_anti_hyst with a phase voltage: the values written while the
\* offset goes down to 0 in steps of 2, then the voltage itself
AtlasPhaseAntiHyst(v_phase) ==
    LET n == DEFAULT_ANTI_HYST_V_PHASE_SQUARED \div RampStep
    IN  [i \in 1..n |->
            Cmd("DRV:D", 0,
                RoundSqrt(v_phase * v_phase
                          + (DEFAULT_ANTI_HYST_V_PHASE_SQUARED - RampStep * (i - 1))
                            * VoltScale * VoltScale))]
        \o <<Cmd("DRV:D", 0, v_phase)>>

\* AtlasLaser.set_wavelength_abs_idx for an index of the table (0-based): the
\* preloads, the apply, the ramp, the tracked index, the pulse, and at the end
\* get_wavelength_idx, which raises unless the operating mode is STEADY
SetWavelengthAbsIdx(l, idx, trigger_pulse) ==
    LET row == l.cycler_table[idx + 1]
    IN  [raised |-> IF l.operation_mode # "STEADY" THEN "OperatingModeError"
                    ELSE "none",
         sent |-> <<Cmd("DRV:DP", 0, row.phase_section),
                    Cmd("DRV:DP", 1, row.ring_large),
                    Cmd("DRV:DP", 2, row.ring_small),
                    Cmd("DRV:DP", 3, row.coupler),
                    Cmd("DRV:U", NoArg, NoArg)>>
                  \o AtlasPhaseAntiHyst(row.phase_section)
                  \o (IF trigger_pulse THEN TriggerPulse ELSE <<>>),
         idx_active |-> idx]

\* a caller tunes to an index of the table
TuneToIndex ==
    /\ pc = "atlas"
    /\ \E idx \in 0..(Len(laser.cycler_table) - 1), trigger_pulse \in BOOLEAN :
          LET r == SetWavelengthAbsIdx(laser, idx, trigger_pulse)
          IN  /\ laser' = [laser EXCEPT !.idx_active = r.idx_active]
              /\ last' = [op |-> "set_wavelength_abs_idx", value |-> idx,
                          mode |-> laser.operation_mode, prev_idx |-> laser.idx_active,
                          raised |-> r.raised, sent |-> r.sent]
    /\ UNCHANGED <<model, rows, entries, cycler_index, mode_index, in_hop, pc, cal,
                   result, steady, sweep, header, device>>

\* AtlasLaser.set_heater_manual
SetHeaterManual ==
    /\ pc = "atlas"
    /\ \E heater_channel \in 0..3, voltage \in {0, VoltScale} :
          last' = [op |-> "set_heater_manual", value |-> voltage,
                   mode |-> laser.operation_mode, prev_idx |-> laser.idx_active,
                   raised |-> IF laser.operation_mode # "MANUAL"
                              THEN "OperatingModeError" ELSE "none",
                   sent |-> IF laser.operation_mode # "MANUAL" THEN <<>>
                            ELSE <<Cmd("DRV:D", heater_channel, voltage)>>]
    /\ UNCHANGED <<model, rows, entries, cycler_index, mode_index, in_hop, pc, cal,
                   result, steady, sweep, header, laser, device>>

\* AtlasLaser.operation_mode (setter): the Steady mode is prepared with the default
\* diode current and TEC target
SetOperationMode ==
    /\ pc = "atlas"
    /\ \E mode \in {"MANUAL", "STEADY"} :
          /\ laser' = [laser EXCEPT !.operation_mode = mode]
          /\ last' = [op |-> "operation_mode", value |-> mode,
                      mode |-> laser.operation_mode, prev_idx |-> laser.idx_active,
                      raised |-> "none",
                      sent |-> IF mode = "STEADY"
                               THEN <<Cmd("LSR:ILEV", 280, NoArg),
                                      Cmd("TEC:TTGT", 25, NoArg)>>
                               ELSE <<>>]
    /\ UNCHANGED <<model, rows, entries, cycler_index, mode_index, in_hop, pc, cal,
                   result, steady, sweep, header, device>>

AtlasInit ==
    /\ model = "ATLAS"
    /\ rows = <<>>
    /\ entries = <<>>
    /\ cycler_index = 0
    /\ mode_index = 1
    /\ in_hop = FALSE
    /\ pc = "atlas"
    /\ cal = NoCal
    /\ result = NoResult
    /\ steady = NoSteady
    /\ sweep = NoSweep
    /\ last = NoOp
    /\ header = NoHeader
    /\ \E table \in AtlasTables : laser = AtlasLaser(table)
    /\ device = NoDevice

AtlasNext == SetOperationMode \/ TuneToIndex \/ SetHeaterManual

SpecAtlas == AtlasInit /\ [][AtlasNext]_vars

\* C27: set_wavelength_abs_idx in an operating mode other than STEADY fails with
\* OperatingModeError, has sent no preload, apply or anti-hysteresis write and
\* leaves the tracked index as it was; set_heater_manual sends a heater write only
\* in the operating mode MANUAL.
C27_WrongOperatingModeSendsNothing ==
    /\ (last # NoOp /\ last.op = "set_wavelength_abs_idx" /\ last.mode # "STEADY")
          => /\ last.raised = "OperatingModeError"
             /\ last.sent = <<>>
             /\ laser.idx_active = last.prev_idx
    /\ (last # NoOp /\ last.op = "set_heater_manual" /\ last.mode # "MANUAL")
          => /\ last.raised = "OperatingModeError"
             /\ last.sent = <<>>

-----------------------------------------------------------------------------
(* read_calibration_file (utils.py): the reader the Laser class uses.  The  *)
(* model is hard-coded to COMET.  `rows` is the file, `cycler_index` the    *)
(* number of rows read so far, `result` the calibration being built.        *)

\* One iteration of `for row in csv_reader`.  The field row[5] is compared with
\* "0" and "1" as it stands; a line without fields has no row[5].
ReadRow ==
    /\ pc = "read"
    /\ cycler_index < Len(rows)
    /\ LET row == rows[cycler_index + 1]
           mi  == IF row.flag = <<"1">> THEN mode_index + 1 ELSE mode_index + 1
       IN  IF row.cells < 6
           THEN /\ pc' = "IndexError"
                /\ UNCHANGED <<cycler_index, mode_index, in_hop, result>>
           ELSE /\ in_hop' = IF row.flag = <<"1">> THEN TRUE
                             ELSE IF in_hop /\ row.flag = <<"0">> THEN FALSE
                             ELSE in_hop
                /\ mode_index' = mi
                /\ result' =
                      [result EXCEPT
                          !.steady = DictPut(@, row.wl,
                                             [wavelength |-> row.wl, mode_index |-> mi,
                                              cycler_index |-> cycler_index]),
                          !.wavelengths = Append(@, row.wl)]
                /\ cycler_index' = cycler_index + 1
                /\ pc' = pc
    /\ UNCHANGED <<model, rows, entries, cal, steady, sweep, last, header, laser, device>>

\* `return calibration` after the last row (at once for an empty file)
ReadReturn ==
    /\ pc = "read"
    /\ cycler_index = Len(rows)
    /\ pc' = "returned"
    /\ UNCHANGED <<model, rows, entries, cycler_index, mode_index, in_hop, cal, result,
                   steady, sweep, last, header, laser, device>>

ReadInit ==
    /\ model = "COMET"
    /\ rows \in SeqsUpTo(DataRows \cup {BlankRow}, MaxRows)
    /\ entries = <<>>
    /\ cycler_index = 0
    /\ mode_index = 0
    /\ in_hop = FALSE
    /\ pc = "read"
    /\ cal = NoCal
    /\ result = [kind |-> "calibration", steady |-> <<>>, wavelengths |-> <<>>]
    /\ steady = NoSteady
    /\ sweep = NoSweep
    /\ last = NoOp
    /\ header = NoHeader
    /\ laser = NoLaser
    /\ device = NoDevice

ReadNext == ReadRow \/ ReadReturn

SpecRead == ReadInit /\ [][ReadNext]_vars

\* the mode index the returned calibration holds for the row at position i of the
\* file (1-based), if the row's entry is still in the table
ReadModeIndexOf(i) ==
    DictGet(result.steady, rows[i].wl).mode_index

RowKept(i) ==
    /\ DictHas(result.steady, rows[i].wl)
    /\ DictGet(result.steady, rows[i].wl).cycler_index = i - 1

\* C28: in the calibration read_calibration_file returns, the mode index goes up
\* only once per run of rows flagged "1": two consecutive rows flagged "0" carry
\* the same mode index, and so do two consecutive rows flagged "1"; and the sweep
\* wavelength list holds the wavelength of row i at list index i.
C28_ModeIndexOncePerHopRun ==
    pc = "returned" =>
        /\ \A i \in 1..(Len(rows) - 1) :
              (/\ RowKept(i) /\ RowKept(i + 1)
               /\ rows[i].flag = rows[i + 1].flag
               /\ rows[i].flag \in {<<"0">>, <<"1">>})
                 => ReadModeIndexOf(i) = ReadModeIndexOf(i + 1)
        /\ Len(result.wavelengths) = Len(rows)
        /\ \A i \in DOMAIN rows : result.wavelengths[i] = rows[i].wl

-----------------------------------------------------------------------------
(* Defaults of the modes (SpecLaser) *)

\* the last set of the mode has applied the defaults of the Manual mode
ManualDefaultsApplied ==
    /\ last # NoOp
    /\ last.op = "laser.mode="
    /\ last.raised = "none"
    /\ last.calls = <<"ManualMode">>

\* the values the last operation wrote to heater channel `ch`
WritesTo(ch) == SelectSeq(last.sent, LAMBDA c : c.cmd = "DRV:D" /\ c.a = ch)

DefaultsRefused ==
    /\ last # NoOp
    /\ last.op = "laser.mode="
    /\ last.raised = "ValueError"
    /\ last.calls # <<>>

\* C24: a mode switch refused by a limit while the defaults of the new mode are
\* applied leaves the mode that was active before it as the active mode.
C24_RefusedSwitchKeepsMode ==
    DefaultsRefused => laser.mode = last.prev_mode

====
